---- MODULE Spec2Model ----
(***************************************************************************)
(* relf: a reader of the fixed 64-byte header of a 64-bit ELF file          *)
(* (src/src/main.rs).  work() opens the file, reads at most                 *)
(* size_of::<Elf64_Ehdr>() bytes into a Vec allocated with that capacity,   *)
(* compares the first four bytes AT THE VEC'S POINTER with the magic,       *)
(* panics with "Not an ELF file" on a mismatch, and otherwise reinterprets  *)
(* the allocation as an Elf64_Ehdr and prints it.                           *)
(*                                                                         *)
(* Modelling decisions:                                                     *)
(*  - bytes of the allocation beyond b.len() are uninitialized: their       *)
(*    content is a nondeterministic choice (UninitImages);                  *)
(*  - an enum read through transmute whose byte is no discriminant of the   *)
(*    enum, and whose Display match has no fallback arm (ElfEiClass,        *)
(*    ElfEiData, ElfEiVersion, ElfEiOsAbi), is undefined behaviour: the     *)
(*    rendered text is any arm's string or Undefined (garbage / a crash);   *)
(*  - ElfEhdrType's Display has a guard arm and a `_` arm, and its derived  *)
(*    PartialOrd compares discriminants, so every 16-bit value takes a      *)
(*    defined arm;                                                          *)
(*  - the target is little-endian (x86-64): a native read of a #[repr(C)]   *)
(*    field takes the lowest address as the least significant byte;         *)
(*  - numbers wider than TLC's integers are byte sequences, most            *)
(*    significant byte first, and rendered text is a sequence of            *)
(*    one-character strings;                                                *)
(*  - the unwrap()s on a missing argument and on open/read errors are       *)
(*    outside the model: a run starts with a file that opened.              *)
(***************************************************************************)
EXTENDS Integers, Sequences, FiniteSets, TLC

VARIABLES
    f,         \* the bytes of the opened file (line 271)
    pc,        \* position in work(): "start", "read", "magic_ok", "done", "panicked"
    b_len,     \* b.len() after read_to_end (line 273)
    heap,      \* the bytes at b.as_ptr(), over the whole capacity (line 272)
    examined,  \* offsets of the allocation the program has loaded
    panic,     \* the panic message, "" when there is none (line 281)
    stdout     \* the report println! wrote, <<>> when there is none (line 289)

vars == <<f, pc, b_len, heap, examined, panic, stdout>>

(***************************************************************************)
(* Program constants                                                       *)
(***************************************************************************)
EI_NIDENT == 16

\* size_of::<Elf64_Ehdr>(): 16 + 2 + 2 + 4 + 8 + 8 + 8 + 4 + 6 * 2, no padding
EhdrSize == 64

Byte == 0..255

proper_magic == <<127, 69, 76, 70>>

NotAnElfMsg == "Not an ELF file"

\* what an undefined read renders as when it is no arm's string
Undefined == "<undefined>"

(***************************************************************************)
(* Bounds of the explored inputs                                           *)
(***************************************************************************)
\* short files: every length 0..MaxShort
MaxShort == 8

\* files longer than the header: up to MaxExtra further bytes
MaxExtra == 1

\* generated byte patterns for the numeric fields: seeds 0..MaxSeed
MaxSeed == 3

(***************************************************************************)
(* Helpers                                                                 *)
(***************************************************************************)
Min(a, c) == IF a < c THEN a ELSE c

Range(s) == {s[i] : i \in 1..Len(s)}

Take(s, n) == SubSeq(s, 1, Min(n, Len(s)))

Reverse(s) == [i \in 1..Len(s) |-> s[Len(s) + 1 - i]]

\* img with the bytes at (0-based) offset off replaced by bytes
With(img, off, bytes) ==
    [i \in 1..Len(img) |->
        IF i > off /\ i <= off + Len(bytes) THEN bytes[i - off] ELSE img[i]]

\* img with every <<offset, bytes>> of edits applied, in order
RECURSIVE WithAll(_, _)
WithAll(img, edits) ==
    IF edits = <<>> THEN img
    ELSE WithAll(With(img, Head(edits)[1], Head(edits)[2]), Tail(edits))

Fill(n, v) == [i \in 1..n |-> v]

(***************************************************************************)
(* Formatting, as core::fmt does it                                        *)
(***************************************************************************)
HexChars == <<"0", "1", "2", "3", "4", "5", "6", "7",
              "8", "9", "a", "b", "c", "d", "e", "f">>

DecChars == <<"0", "1", "2", "3", "4", "5", "6", "7", "8", "9">>

\* "{:02x}" of a u8
FmtHex02(x) == <<HexChars[(x \div 16) + 1], HexChars[(x % 16) + 1]>>

RECURSIVE Nibbles(_)
Nibbles(bs) ==
    IF bs = <<>> THEN <<>> ELSE FmtHex02(Head(bs)) \o Nibbles(Tail(bs))

RECURSIVE StripZeros(_)
StripZeros(s) ==
    IF Len(s) > 1 /\ Head(s) = "0" THEN StripZeros(Tail(s)) ELSE s

\* a plausible slip: "{:x}", which writes no 0x prefix
FmtLowerHex(bs) == StripZeros(Nibbles(bs))

\* "{:#x}" of an unsigned integer given as bytes, most significant first
FmtLowerHexAlt(bs) == <<"0", "x">> \o StripZeros(Nibbles(bs))

IsZero(bs) == \A i \in 1..Len(bs) : bs[i] = 0

\* one long division by ten of a base-256 number, most significant byte first
RECURSIVE LongDiv10(_, _)
LongDiv10(bs, r) ==
    IF bs = <<>> THEN [q |-> <<>>, r |-> r]
    ELSE LET cur == r * 256 + Head(bs)
             rest == LongDiv10(Tail(bs), cur % 10)
         IN [q |-> <<cur \div 10>> \o rest.q, r |-> rest.r]

RECURSIVE DecDigits(_)
DecDigits(bs) ==
    IF IsZero(bs) THEN <<>>
    ELSE LET d == LongDiv10(bs, 0)
         IN DecDigits(d.q) \o <<DecChars[d.r + 1]>>

\* "{}" (and "{:?}") of an unsigned integer given as bytes, most significant first
FmtDecimal(bs) == IF IsZero(bs) THEN <<"0">> ELSE DecDigits(bs)

(***************************************************************************)
(* The field decoders: the Display impls of the enums                      *)
(***************************************************************************)
ElfEiClass_Names == <<"None", "ELF32", "ELF64">>

ElfEiData_Names ==
    <<"None", "2's complement, little endian", "2's complement, big endian">>

ElfEiVersion_Names == <<"None", "1 (current)">>

\* discriminant -> string, for the 14 variants of ElfEiOsAbi
ElfEiOsAbi_Discr == <<0, 1, 2, 3, 6, 7, 8, 9, 10, 11, 12, 64, 97, 255>>

ElfEiOsAbi_Names ==
    <<"UNIX - System V", "HP-UX", "NetBSD", "GNU ELF", "Sun Solaris",
      "IBM AIX", "SGI Irix", "FreeBSD", "Compaq TRU64 UNIX", "Novell Modesto",
      "OpenBSD", "ARM EABI", "ARM", "Standalone (embedded) application">>

\* the outcomes of matching a value that is no variant of an enum whose
\* match is exhaustive over the variants: undefined behaviour
InvalidDiscriminant(names) == Range(names) \cup {Undefined}

\* each decoder yields the SET of texts the build can render for the byte
ElfEiClass_fmtSwapped(x) ==
    IF x \in 0..2 THEN {<<"None", "ELF64", "ELF32">>[x + 1]}
    ELSE InvalidDiscriminant(ElfEiClass_Names)

ElfEiClass_fmt(x) ==
    IF x \in 0..2 THEN {ElfEiClass_Names[x + 1]}
    ELSE InvalidDiscriminant(ElfEiClass_Names)

ElfEiData_fmt(x) ==
    IF x \in 0..2 THEN {ElfEiData_Names[x + 1]}
    ELSE InvalidDiscriminant(ElfEiData_Names)

ElfEiVersion_fmt(x) ==
    IF x \in 0..1 THEN {ElfEiVersion_Names[x + 1]}
    ELSE InvalidDiscriminant(ElfEiVersion_Names)

ElfEiOsAbi_fmt(x) ==
    IF x \in Range(ElfEiOsAbi_Discr)
    THEN {ElfEiOsAbi_Names[CHOOSE i \in 1..Len(ElfEiOsAbi_Discr) :
                               ElfEiOsAbi_Discr[i] = x]}
    ELSE InvalidDiscriminant(ElfEiOsAbi_Names)

ET_LOPROC == 65280

ET_HIPROC == 65535

\* a plausible slip: the upper end of the range compared with <
ElfEhdrType_fmtExclusive(x) ==
    CASE x = 0 -> "NONE (No file type)"
      [] x = 1 -> "REL (Relocatable file)"
      [] x = 2 -> "EXEC (Executable file)"
      [] x = 3 -> "DYN (Shared object file)"
      [] x = 4 -> "CORE (Core file)"
      [] x > 4 /\ x >= ET_LOPROC /\ x < ET_HIPROC -> "Processor-specific"
      [] OTHER -> "Unknown file type"

ElfEhdrType_fmt(x) ==
    CASE x = 0 -> "NONE (No file type)"
      [] x = 1 -> "REL (Relocatable file)"
      [] x = 2 -> "EXEC (Executable file)"
      [] x = 3 -> "DYN (Shared object file)"
      [] x = 4 -> "CORE (Core file)"
      [] x > 4 /\ x >= ET_LOPROC /\ x <= ET_HIPROC -> "Processor-specific"
      [] OTHER -> "Unknown file type"

\* Display for ElfIdent: every one of the 16 bytes as "{:02x} "
RECURSIVE ElfIdent_fmt(_)
ElfIdent_fmt(data) ==
    IF data = <<>> THEN <<>>
    ELSE FmtHex02(Head(data)) \o <<" ">> \o ElfIdent_fmt(Tail(data))

(***************************************************************************)
(* Reading the header record out of the allocation                         *)
(***************************************************************************)
\* a plausible slip: the bytes taken most significant first
ReadNativeBigEndian(mem, off, width) == SubSeq(mem, off + 1, off + width)

\* a native (little-endian) read of a field of `width` bytes at byte offset
\* `off`; the result is most significant byte first
ReadNative(mem, off, width) == Reverse(SubSeq(mem, off + 1, off + width))

\* the e_type field as a number
ReadHalf(mem, off) == mem[off + 1] + 256 * mem[off + 2]

\* a plausible slip: ei_class laid out after the padding
ElfIdentNamedShifted(mem) ==
    [ei_class |-> mem[10], ei_data |-> mem[6], ei_version |-> mem[7],
     ei_osabi |-> mem[8], ei_osabiversion |-> <<mem[9]>>]

\* the transmute of e_ident to ElfIdentNamed: the named bytes of the block
ElfIdentNamed(mem) ==
    [ei_class |-> mem[5], ei_data |-> mem[6], ei_version |-> mem[7],
     ei_osabi |-> mem[8], ei_osabiversion |-> <<mem[9]>>]

Line(label, text, suffix) == [label |-> label, text |-> text, suffix |-> suffix]

\* Display for Elf64_Ehdr, given the texts the four unchecked enums rendered
Elf64_Ehdr_fmt(mem, cls, dat, ver, abi) ==
    <<Line("Magic", ElfIdent_fmt(SubSeq(mem, 1, EI_NIDENT)), ""),
      Line("Class", cls, ""),
      Line("Data", dat, ""),
      Line("Version", ver, ""),
      Line("OS/ABI", abi, ""),
      Line("ABI Version", FmtDecimal(ElfIdentNamed(mem).ei_osabiversion), ""),
      Line("Type", ElfEhdrType_fmt(ReadHalf(mem, 16)), ""),
      Line("Machine", FmtDecimal(ReadNative(mem, 18, 2)), ""),
      Line("Version", FmtLowerHexAlt(ReadNative(mem, 20, 4)), ""),
      Line("Entry point address", FmtLowerHexAlt(ReadNative(mem, 24, 8)), ""),
      Line("Start of program headers", FmtDecimal(ReadNative(mem, 32, 8)),
           " (bytes into file)"),
      Line("Start of section headers", FmtDecimal(ReadNative(mem, 40, 8)),
           " (bytes into file)"),
      Line("Flags", FmtLowerHexAlt(ReadNative(mem, 48, 4)), ""),
      Line("Size of this header", FmtDecimal(ReadNative(mem, 52, 2)), " (bytes)"),
      Line("Size of program headers", FmtDecimal(ReadNative(mem, 54, 2)),
           " (bytes)"),
      Line("Number of program headers", FmtDecimal(ReadNative(mem, 56, 2)), ""),
      Line("Size of section headers", FmtDecimal(ReadNative(mem, 58, 2)),
           " (bytes)"),
      Line("Number of section headers", FmtDecimal(ReadNative(mem, 60, 2)), ""),
      Line("Section header string table index",
           FmtDecimal(ReadNative(mem, 62, 2)), "")>>

\* every report the build can print for the allocation content mem
Reports(mem) ==
    {Elf64_Ehdr_fmt(mem, cls, dat, ver, abi) :
        cls \in ElfEiClass_fmt(ElfIdentNamed(mem).ei_class),
        dat \in ElfEiData_fmt(ElfIdentNamed(mem).ei_data),
        ver \in ElfEiVersion_fmt(ElfIdentNamed(mem).ei_version),
        abi \in ElfEiOsAbi_fmt(ElfIdentNamed(mem).ei_osabi)}

\* a plausible slip: only three bytes of the magic compared
MagicMatchesThree(mem) == SubSeq(mem, 1, 3) = SubSeq(proper_magic, 1, 3)

\* proper_magic == magic, magic being the four bytes at b.as_ptr()
MagicMatches(mem) == SubSeq(mem, 1, 4) = proper_magic

(***************************************************************************)
(* The inputs                                                              *)
(***************************************************************************)
\* the first 64 bytes of a small static x86-64 executable
BaseImage ==
    <<127, 69, 76, 70, 2, 1, 1, 0, 0, 0, 0, 0, 0, 0, 0, 0,
      2, 0, 62, 0, 1, 0, 0, 0,
      120, 0, 64, 0, 0, 0, 0, 0,
      64, 0, 0, 0, 0, 0, 0, 0,
      16, 2, 0, 0, 0, 0, 0, 0,
      0, 0, 0, 0, 64, 0, 56, 0, 1, 0, 64, 0, 3, 0, 2, 0>>

\* what the allocation may hold where read_to_end wrote nothing
UninitImages == {Fill(EhdrSize, 0), Fill(EhdrSize, 170), BaseImage}

MagicVariants == {proper_magic, <<0, 69, 76, 70>>, <<127, 69, 76, 71>>}

FileLens ==
    (0..MaxShort) \cup {EhdrSize - 1} \cup (EhdrSize..(EhdrSize + MaxExtra))

\* bytes that follow the header in a longer file
Trailer == Fill(MaxExtra, 238)

\* a generated field of w bytes: zero, a small value, the maximum, mixed bytes
Gen(s, w) ==
    [i \in 1..w |->
        CASE s = 0 -> 0
          [] s = 1 -> IF i = 1 THEN 64 ELSE 0
          [] s = 2 -> 255
          [] OTHER -> (s * 37 + i * s * 59) % 256]

Seeds == 0..MaxSeed

TypeInit ==
    /\ pc = "start"
    /\ b_len = 0
    /\ heap = <<>>
    /\ examined = {}
    /\ panic = ""
    /\ stdout = <<>>

\* files of every length around the header, with every value of the
\* identification bytes in and just outside their enums
InitIdent ==
    \E n \in FileLens, m \in MagicVariants, c \in 0..3, d \in 0..3,
       v \in 0..2, o \in {0, 3, 4}, t \in {<<2, 0>>, <<0, 255>>} :
        f = Take(With(With(With(BaseImage, 0, m), 4, <<c, d, v, o>>), 16, t)
                 \o Trailer, n)

\* whole headers with every OS/ABI byte
InitOsAbi ==
    \E o \in Byte : f = With(BaseImage, 7, <<o>>)

Init == TypeInit /\ (InitIdent \/ InitOsAbi)

\* whole headers with every value of the 2-byte type field
InitType ==
    /\ TypeInit
    /\ \E lo \in Byte, hi \in Byte, m \in {proper_magic, <<127, 69, 76, 0>>} :
        /\ (m # proper_magic => lo = 0 /\ hi = 0)
        /\ f = With(With(BaseImage, 0, m), 16, <<lo, hi>>)

\* whole headers with generated padding and numeric fields
InitNum ==
    /\ TypeInit
    /\ \E pad \in Seeds, ent \in Seeds, ph \in Seeds, sh \in Seeds,
          w \in Seeds, h \in Seeds, m \in {proper_magic, <<127, 69, 76, 0>>} :
        /\ (m # proper_magic => pad = 0 /\ ent = 0 /\ ph = 0 /\ sh = 0
                                /\ w = 0 /\ h = 0)
        /\ f = WithAll(BaseImage,
                  <<<<0, m>>, <<8, Gen(h, 1) \o Gen(pad, 7)>>, <<18, Gen(h, 2)>>,
                    <<20, Gen(w, 4)>>, <<24, Gen(ent, 8)>>, <<32, Gen(ph, 8)>>,
                    <<40, Gen(sh, 8)>>, <<48, Gen(w + 1, 4)>>, <<52, Gen(h, 6)>>,
                    <<58, Gen(h + 1, 6)>>>>)

(***************************************************************************)
(* work()                                                                  *)
(***************************************************************************)
\* lines 272-273: the Vec is allocated with capacity EhdrSize and
\* f.take(EhdrSize).read_to_end(&mut b) fills its first b.len() bytes
ReadFile ==
    /\ pc = "start"
    /\ LET n == Min(Len(f), EhdrSize)
       IN /\ b_len' = n
          /\ \E g \in UninitImages :
                heap' = [i \in 1..EhdrSize |-> IF i <= n THEN f[i] ELSE g[i]]
    /\ pc' = "read"
    /\ UNCHANGED <<f, examined, panic, stdout>>

\* lines 275-282: the comparison loads four bytes at b.as_ptr(),
\* whatever b.len() is
CheckMagic ==
    /\ pc = "read"
    /\ examined' = examined \cup (0..3)
    /\ IF MagicMatches(heap)
       THEN pc' = "magic_ok" /\ panic' = panic
       ELSE pc' = "panicked" /\ panic' = NotAnElfMsg
    /\ UNCHANGED <<f, b_len, heap, stdout>>

\* lines 284-289: the allocation read as an Elf64_Ehdr and printed
PrintHeader ==
    /\ pc = "magic_ok"
    /\ examined' = examined \cup (0..(EhdrSize - 1))
    /\ stdout' \in Reports(heap)
    /\ pc' = "done"
    /\ UNCHANGED <<f, b_len, heap, panic>>

Next == ReadFile \/ CheckMagic \/ PrintHeader

Spec == Init /\ [][Next]_vars

SpecType == InitType /\ [][Next]_vars

SpecNum == InitNum /\ [][Next]_vars

(***************************************************************************)
(* What the claims read off a state, computed independently of the         *)
(* formatters above                                                        *)
(***************************************************************************)
Finished == pc \in {"done", "panicked"}

\* the file holds a whole header that starts with the magic
WholeWithMagic == Len(f) >= EhdrSize /\ SubSeq(f, 1, 4) = proper_magic

NamedOsAbi == {0, 1, 2, 3, 6, 7, 8, 9, 10, 11, 12, 64, 97, 255}

\* a whole header whose identification bytes all name a variant
ValidHeader ==
    /\ WholeWithMagic
    /\ f[5] \in 0..2
    /\ f[6] \in 0..2
    /\ f[7] \in 0..1
    /\ f[8] \in NamedOsAbi

\* the 2-byte field at offset 16, as the little-endian target reads it
TypeField == f[17] + 256 * f[18]

ExpectedTypeName(t) ==
    CASE t = 0 -> "NONE (No file type)"
      [] t = 1 -> "REL (Relocatable file)"
      [] t = 2 -> "EXEC (Executable file)"
      [] t = 3 -> "DYN (Shared object file)"
      [] t = 4 -> "CORE (Core file)"
      [] t \in 65280..65535 -> "Processor-specific"
      [] OTHER -> "Unknown file type"

ExpectedOsAbiName(o) ==
    CASE o = 0 -> "UNIX - System V"
      [] o = 1 -> "HP-UX"
      [] o = 2 -> "NetBSD"
      [] o = 3 -> "GNU ELF"
      [] o = 6 -> "Sun Solaris"
      [] o = 7 -> "IBM AIX"
      [] o = 8 -> "SGI Irix"
      [] o = 9 -> "FreeBSD"
      [] o = 10 -> "Compaq TRU64 UNIX"
      [] o = 11 -> "Novell Modesto"
      [] o = 12 -> "OpenBSD"
      [] o = 64 -> "ARM EABI"
      [] o = 97 -> "ARM"
      [] o = 255 -> "Standalone (embedded) application"

AllIn(text, chars) == \A i \in 1..Len(text) : text[i] \in Range(chars)

CharValue(chars, c) == (CHOOSE i \in 1..Len(chars) : chars[i] = c) - 1

\* a number held as bytes, least significant first, times m plus carry
RECURSIVE MulAdd(_, _, _)
MulAdd(le, m, carry) ==
    IF le = <<>> THEN <<>>
    ELSE LET t == Head(le) * m + carry
         IN <<t % 256>> \o MulAdd(Tail(le), m, t \div 256)

\* the digits of text (most significant first, in the base Len(chars))
\* accumulated into acc, bytes least significant first
RECURSIVE Accumulate(_, _, _)
Accumulate(text, chars, acc) ==
    IF text = <<>> THEN acc
    ELSE Accumulate(Tail(text), chars,
                    MulAdd(acc, Len(chars), CharValue(chars, Head(text))))

\* text is the canonical numeral, in the digits chars, of the unsigned
\* integer whose bytes, least significant first, are le
IsNumeralOf(text, chars, le) ==
    /\ Len(text) >= 1
    /\ AllIn(text, chars)
    /\ (Len(text) > 1 => text[1] # "0")
    /\ Len(text) <= 3 * Len(le)
    /\ Accumulate(text, chars, Fill(Len(le), 0)) = le

IsDecimalOf(text, le) == IsNumeralOf(text, DecChars, le)

IsHexOf(text, le) ==
    /\ Len(text) >= 3
    /\ text[1] = "0"
    /\ text[2] = "x"
    /\ IsNumeralOf(SubSeq(text, 3, Len(text)), HexChars, le)

\* the bytes of the file's field at byte offset off
FileField(off, width) == SubSeq(f, off + 1, off + width)

Labels == [i \in 1..Len(stdout) |-> stdout[i].label]

OnDiskOrder ==
    <<"Magic", "Class", "Data", "Version", "OS/ABI", "ABI Version", "Type",
      "Machine", "Version", "Entry point address", "Start of program headers",
      "Start of section headers", "Flags", "Size of this header",
      "Size of program headers", "Number of program headers",
      "Size of section headers", "Number of section headers",
      "Section header string table index">>

(***************************************************************************)
(* C1: every file shorter than the 64-byte header fails with               *)
(* TruncatedInput: a failure other than "Not an ELF file", with nothing    *)
(* decoded and no report.  (work() has no length check.)                   *)
(***************************************************************************)
C1_TruncatedInput ==
    Len(f) < EhdrSize =>
        /\ stdout = <<>>
        /\ pc # "done"
        /\ (Finished => pc = "panicked" /\ panic # NotAnElfMsg)

(***************************************************************************)
(* C2: a file whose first four bytes are not 7F 45 4C 46 is rejected with  *)
(* the message "Not an ELF file" whatever follows, and nothing is          *)
(* printed; a file of at least 64 bytes that starts with the magic is      *)
(* never rejected by the magic check.  (A file is taken to have wrong      *)
(* first bytes when one of the bytes it holds among the first four         *)
(* differs from the magic; a shorter prefix of the magic is C1's case.)    *)
(***************************************************************************)
C2_MagicValidation ==
    /\ (\E i \in 1..Min(Len(f), 4) : f[i] # proper_magic[i]) =>
          /\ stdout = <<>>
          /\ pc \in {"start", "read", "panicked"}
          /\ (pc = "panicked" => panic = NotAnElfMsg)
    /\ WholeWithMagic => (pc # "panicked" /\ panic = "")

\* a whole file, wrong only in the fourth byte, was rejected
C2_Witness ==
    /\ pc = "panicked"
    /\ Len(f) >= EhdrSize
    /\ SubSeq(f, 1, 3) = SubSeq(proper_magic, 1, 3)
    /\ f[4] # proper_magic[4]
    /\ panic = NotAnElfMsg

(***************************************************************************)
(* C3: the Type line is defined for every 2-byte value: 0..4 are NONE,     *)
(* REL, EXEC, DYN, CORE; 0xff00..0xffff, both ends included, are           *)
(* "Processor-specific"; everything else is "Unknown file type".           *)
(***************************************************************************)
C3_HeaderTypeTotal ==
    (pc = "done" /\ ValidHeader) =>
        /\ stdout[7].label = "Type"
        /\ stdout[7].text = ExpectedTypeName(TypeField)

\* the upper end of the processor-specific range was rendered
C3_Witness ==
    /\ pc = "done"
    /\ ValidHeader
    /\ TypeField = 65535
    /\ stdout[7].text = "Processor-specific"

(***************************************************************************)
(* C4: each of the 14 named OS/ABI bytes renders as its own string, and    *)
(* every other byte has one defined outcome: never an undefined result,    *)
(* never the string of a variant the byte does not name.  (The match on    *)
(* the transmuted byte has no arm for the other 242 values.)               *)
(***************************************************************************)
C4_OsAbiDefined ==
    (pc = "done" /\ WholeWithMagic) =>
        IF f[8] \in NamedOsAbi
        THEN stdout[5].text = ExpectedOsAbiName(f[8])
        ELSE /\ stdout[5].text # Undefined
             /\ stdout[5].text \notin {ExpectedOsAbiName(o) : o \in NamedOsAbi}

(***************************************************************************)
(* C5: a whole header with the magic, class in 0..2, data in 0..2, ident   *)
(* version in 0..1 and a named OS/ABI byte is never rejected, and its      *)
(* report names exactly those bytes and the type field on the Class, Data  *)
(* and Type lines; class 2, data 1, type 2 give "ELF64", "2's complement,  *)
(* little endian" and "EXEC (Executable file)".                            *)
(***************************************************************************)
C5_ValidHeaderRendered ==
    ValidHeader =>
        /\ pc # "panicked"
        /\ pc = "done" =>
            /\ stdout[2] = Line("Class", <<"None", "ELF32", "ELF64">>[f[5] + 1], "")
            /\ stdout[3] = Line("Data",
                                <<"None", "2's complement, little endian",
                                  "2's complement, big endian">>[f[6] + 1], "")
            /\ stdout[7] = Line("Type", ExpectedTypeName(TypeField), "")
            /\ (f[5] = 2 /\ f[6] = 1 /\ TypeField = 2) =>
                  /\ stdout[2].text = "ELF64"
                  /\ stdout[3].text = "2's complement, little endian"
                  /\ stdout[7].text = "EXEC (Executable file)"

\* the minimal executable header was rendered
C5_Witness ==
    /\ pc = "done"
    /\ ValidHeader
    /\ f[5] = 2 /\ f[6] = 1 /\ f[7] = 1 /\ f[8] = 0 /\ TypeField = 2
    /\ stdout[2].text = "ELF64"

\* the header with bytes 9..15 replaced by the generated pattern s
PaddingReplaced(s) == With(heap, 9, Gen(s, 7))

(***************************************************************************)
(* C6 as stated: the padding bytes 9..15 are not validated and not         *)
(* displayed: a valid header with other padding bytes has the same         *)
(* outcome and the identical report.                                       *)
(***************************************************************************)
C6_PaddingNotDisplayed ==
    (pc = "done" /\ ValidHeader) =>
        \A s \in Seeds :
            /\ MagicMatches(PaddingReplaced(s))
            /\ Reports(PaddingReplaced(s)) = {stdout}

(***************************************************************************)
(* C6 as amended: the padding bytes 9..15 are not validated and not        *)
(* interpreted, and are displayed only in the hex dump of the Magic line,  *)
(* which shows each of the 16 identification bytes as two hex digits: a    *)
(* valid header with other padding bytes has the same outcome and a        *)
(* report identical on every line but the Magic line.                      *)
(***************************************************************************)
C6_PaddingOnlyInDump ==
    (pc = "done" /\ ValidHeader) =>
        /\ Len(stdout[1].text) = 3 * EI_NIDENT
        /\ \A k \in 0..(EI_NIDENT - 1) :
              /\ AllIn(SubSeq(stdout[1].text, 3 * k + 1, 3 * k + 2), HexChars)
              /\ 16 * CharValue(HexChars, stdout[1].text[3 * k + 1])
                    + CharValue(HexChars, stdout[1].text[3 * k + 2]) = f[k + 1]
              /\ stdout[1].text[3 * k + 3] = " "
        /\ \A s \in Seeds :
              /\ MagicMatches(PaddingReplaced(s))
              /\ \A r \in Reports(PaddingReplaced(s)) : Tail(r) = Tail(stdout)

\* a valid header with nonzero padding was rendered
C6_Witness ==
    /\ pc = "done"
    /\ ValidHeader
    /\ \A k \in 10..16 : f[k] # 0
    /\ Len(stdout) = 19

(***************************************************************************)
(* C7: for a valid header the "Start of program headers" and "Start of     *)
(* section headers" lines show, in decimal, the unsigned 64-bit values     *)
(* formed little-endian from bytes 32..39 and 40..47.                      *)
(***************************************************************************)
C7_OffsetsDecimalLittleEndian ==
    (pc = "done" /\ ValidHeader) =>
        /\ stdout[11].label = "Start of program headers"
        /\ IsDecimalOf(stdout[11].text, FileField(32, 8))
        /\ stdout[12].label = "Start of section headers"
        /\ IsDecimalOf(stdout[12].text, FileField(40, 8))

\* offsets that do not fit 32 bits, and differ, were rendered
C7_Witness ==
    /\ pc = "done"
    /\ ValidHeader
    /\ f[40] # 0
    /\ f[48] # 0
    /\ FileField(32, 8) # FileField(40, 8)
    /\ Len(stdout[11].text) > 10

\* lines 14..19: the six 2-byte counts and sizes, at offsets 52..62
CountsAndSizesDecimal ==
    \A i \in 14..19 : IsDecimalOf(stdout[i].text, FileField(52 + 2 * (i - 14), 2))

(***************************************************************************)
(* C8 as stated: header version, entry point address, program header       *)
(* table offset, section header table offset and flags are shown in        *)
(* hexadecimal with a 0x prefix, every count and size in decimal, in the   *)
(* fixed on-disk order.                                                    *)
(***************************************************************************)
C8_OffsetsHex ==
    (pc = "done" /\ ValidHeader) =>
        /\ Labels = OnDiskOrder
        /\ IsHexOf(stdout[9].text, FileField(20, 4))
        /\ IsHexOf(stdout[10].text, FileField(24, 8))
        /\ IsHexOf(stdout[11].text, FileField(32, 8))
        /\ IsHexOf(stdout[12].text, FileField(40, 8))
        /\ IsHexOf(stdout[13].text, FileField(48, 4))
        /\ CountsAndSizesDecimal

(***************************************************************************)
(* C8 as amended: header version, entry point address and flags are shown  *)
(* in hexadecimal with a 0x prefix; the program and section header table   *)
(* offsets and every count and size are shown in decimal; the fields come  *)
(* in the fixed on-disk order.                                             *)
(***************************************************************************)
C8_HexAndDecimal ==
    (pc = "done" /\ ValidHeader) =>
        /\ Labels = OnDiskOrder
        /\ IsHexOf(stdout[9].text, FileField(20, 4))
        /\ IsHexOf(stdout[10].text, FileField(24, 8))
        /\ IsDecimalOf(stdout[11].text, FileField(32, 8))
        /\ IsDecimalOf(stdout[12].text, FileField(40, 8))
        /\ IsHexOf(stdout[13].text, FileField(48, 4))
        /\ CountsAndSizesDecimal

\* a header whose entry point and flags have letters among their hex
\* digits was rendered
C8_Witness ==
    /\ pc = "done"
    /\ ValidHeader
    /\ \E i \in 3..Len(stdout[10].text) : stdout[10].text[i] \in {"a", "b", "c", "d", "e", "f"}
    /\ Len(stdout[13].text) = 10
    /\ Len(stdout[14].text) > 1

(***************************************************************************)
(* C9: once a whole header starts with the magic, decoding and rendering   *)
(* cannot fail whatever the other bytes are: the report is one fully       *)
(* defined function of the bytes, and "Not an ELF file" and                *)
(* TruncatedInput are the only failures.  (A class, data, version or       *)
(* OS/ABI byte that names no variant is matched without a fallback arm.)   *)
(***************************************************************************)
C9_DecodeCannotFail ==
    /\ panic \in {"", NotAnElfMsg, "TruncatedInput"}
    /\ (pc = "done" /\ WholeWithMagic) =>
          /\ \A i \in {2, 3, 4, 5, 7} : stdout[i].text # Undefined
          /\ Reports(heap) = {stdout}

(***************************************************************************)
(* C10: the steps run in the order length check, magic check, decode,      *)
(* render: no byte beyond those read from the file is examined, the magic  *)
(* comparison reads nothing of a buffer shorter than 4 bytes, no field     *)
(* but the magic is read unless the magic check has passed, and a failed   *)
(* step leaves no report.  (The comparison and the cast read the whole     *)
(* allocation, whatever b.len() is.)                                       *)
(***************************************************************************)
C10_StepOrder ==
    /\ examined \subseteq 0..(b_len - 1)
    /\ (b_len < 4 => examined = {})
    /\ (examined \ (0..3) # {} => MagicMatches(heap) /\ pc = "done")
    /\ (pc = "panicked" => stdout = <<>>)
    /\ (stdout # <<>> => b_len = EhdrSize /\ pc = "done")

====
